---------------------------- MODULE Spec2Model ----------------------------
(***************************************************************************)
(* Model of src/main.py: the sitemap crawl of main(), the retry-decorated  *)
(* fetchers of SitemapParser and ArticleScraper, the metadata extraction   *)
(* of ArticleScraper.scrape and FileUtility.save_to_json.                  *)
(*                                                                         *)
(* Python values are represented as follows.                               *)
(*   str: a sequence of one-character strings; the text of a <p> and    *)
(*       the content built from it: a TLA+ string                          *)
(*   list: a sequence;   None / a missing dict key: the empty option <<>>, *)
(*       a present value v: the option <<v>>                               *)
(***************************************************************************)
EXTENDS Integers, Sequences, FiniteSets, TLC

VARIABLES
    pc,               \* position of main(): the statement about to run
    max_articles,     \* main: max_articles (line 124)
    monthly_sitemaps, \* main: monthly_sitemaps (line 120)
    m,                \* main: number of items the outer for has taken (line 126)
    article_urls,     \* main: article_urls (line 129)
    u,                \* main: number of items the inner for has taken (line 131)
    articles,         \* main: articles, the accumulator (lines 122, 137, 147)
    article_count,    \* main: article_count (lines 123, 138)
    article,          \* main: article, the last result of scraper.scrape() (line 135)
    attempt,          \* tenacity: attempt number of the decorated call in progress
    response,         \* the outcome of the last requests.get / parse
    requests,         \* number of requests.get calls issued so far, per kind
    outcomes,         \* per URL taken from article_urls: did its scrape return an Article
    dir_exists,       \* file system: os.path.exists(directory)
    files,            \* file system: filepath (year, month) -> content
    save_calls,       \* every call of FileUtility.save_to_json so far
    appends           \* number of articles.append calls so far (line 137)

vars == <<pc, max_articles, monthly_sitemaps, m, article_urls, u, articles,
          article_count, article, attempt, response, requests, outcomes,
          dir_exists, files, save_calls, appends>>

(***************************************************************************)
(* Bounds of the model.                                                    *)
(***************************************************************************)
MaxCap == 2          \* max_articles ranges over 1..MaxCap
MaxMonths == 2       \* <loc> entries of the sitemap index
MaxUrls == 2         \* <loc> entries of one monthly sitemap
MaxStrLen == 2       \* length of a keywords / word_count string
MaxParagraphs == 2   \* <p> elements of a page
MaxPieces == 4       \* pieces a monthly sitemap URL of SpecKeys is made of

(***************************************************************************)
(* Python built-ins used by the code.                                      *)
(***************************************************************************)
None == <<>>

Some(v) == <<v>>

\* bool(x) of an optional object: None is falsy, an Article instance (a
\* dataclass without __bool__ / __len__) is truthy.
MutTruthyAlways(x) == TRUE

Truthy(x) == x # None

\* dict.get(key, default)
Get(metadata, key, default) ==
    IF metadata[key] = None THEN default ELSE metadata[key][1]

RECURSIVE IndexOf(_, _, _)
\* least i >= from with s[i] = c, or 0
IndexOf(s, c, from) ==
    IF from > Len(s) THEN 0
    ELSE IF s[from] = c THEN from
    ELSE IndexOf(s, c, from + 1)

RECURSIVE Split(_, _)
\* str.split(sep) for a one-character sep: every occurrence splits, empty
\* tokens are kept, and "".split(sep) is [""].
Split(s, sep) ==
    LET i == IndexOf(s, sep, 1)
    IN  IF i = 0 THEN <<s>>
        ELSE <<SubSeq(s, 1, i - 1)>> \o Split(SubSeq(s, i + 1, Len(s)), sep)

RECURSIVE Replace(_, _, _)
\* str.replace(old, new) for a non-empty old: every non-overlapping
\* occurrence, left to right.
Replace(s, old, new) ==
    IF Len(s) < Len(old) THEN s
    ELSE IF SubSeq(s, 1, Len(old)) = old
         THEN new \o Replace(SubSeq(s, Len(old) + 1, Len(s)), old, new)
         ELSE <<s[1]>> \o Replace(Tail(s), old, new)

Digits == {"0", "1", "2", "3", "4", "5", "6", "7", "8", "9"}

DigitValue(c) ==
    CASE c = "0" -> 0 [] c = "1" -> 1 [] c = "2" -> 2 [] c = "3" -> 3
      [] c = "4" -> 4 [] c = "5" -> 5 [] c = "6" -> 6 [] c = "7" -> 7
      [] c = "8" -> 8 [] c = "9" -> 9

RECURSIVE Strip(_)
\* str.strip() as int() applies it: leading and trailing blanks removed
Strip(s) ==
    IF s = <<>> THEN s
    ELSE IF s[1] = " " THEN Strip(Tail(s))
    ELSE IF s[Len(s)] = " " THEN Strip(SubSeq(s, 1, Len(s) - 1))
    ELSE s

RECURSIVE DigitsValue(_, _)
\* value of a digit string with its underscores skipped
DigitsValue(s, acc) ==
    IF s = <<>> THEN acc
    ELSE IF s[1] = "_" THEN DigitsValue(Tail(s), acc)
    ELSE DigitsValue(Tail(s), 10 * acc + DigitValue(s[1]))

\* the digit part int() accepts: digits, single underscores between digits
ValidDigits(s) ==
    /\ s # <<>>
    /\ \A i \in 1..Len(s) : s[i] \in Digits \cup {"_"}
    /\ s[1] # "_"
    /\ s[Len(s)] # "_"
    /\ \A i \in 1..(Len(s) - 1) : ~(s[i] = "_" /\ s[i + 1] = "_")

\* A JSON value as int() sees it: an int, a str, or a value int() rejects
\* with TypeError (null, a list, an object).
IntValue(n) == [kind |-> "int", n |-> n, s |-> <<>>]

StrValue(s) == [kind |-> "str", n |-> 0, s |-> s]

NullValue == [kind |-> "null", n |-> 0, s |-> <<>>]

\* int(x): Some(n), or None when int() raises ValueError / TypeError
PyInt(x) ==
    IF x.kind = "int" THEN Some(x.n)
    ELSE IF x.kind = "str"
    THEN LET t == Strip(x.s)
             signed == t # <<>> /\ t[1] \in {"+", "-"}
             body == IF signed THEN Tail(t) ELSE t
         IN  IF ValidDigits(body)
             THEN Some(IF signed /\ t[1] = "-" THEN 0 - DigitsValue(body, 0)
                       ELSE DigitsValue(body, 0))
             ELSE None
    ELSE None

(***************************************************************************)
(* Pages and their embedded metadata (ArticleScraper.scrape, lines 70-98). *)
(* A JSON value of the metadata object is a record: a str (its characters  *)
(* in s), an int (n), a list of str (its items in s) or null.              *)
(***************************************************************************)
ListValue(l) == [kind |-> "list", n |-> 0, s |-> l]

\* the metadata keys scrape reads, Article field by Article field
Keys == {"postid", "title", "keywords", "thumbnail", "published_time",
         "last_updated", "author", "video_duration", "word_count",
         "description", "lang", "classes", "lite_url"}

\* metadata = {} : every key missing
EmptyMetadata == [k \in Keys |-> None]

\* script: "absent" (soup.find returns None), "object" (json.loads returns a
\* dict) or "invalid" (json.loads raises, or returns something without .get)
Page(script, metadata, paragraphs) ==
    [script |-> script, metadata |-> metadata, paragraphs |-> paragraphs]

RECURSIVE FullText(_)
\* lines 75-77: full_text += p.text + "\n" for every <p>
FullText(paragraphs) ==
    IF paragraphs = <<>> THEN ""
    ELSE paragraphs[1] \o "\n" \o FullText(Tail(paragraphs))

\* lines 70-99, the body of the try once the response is in: Some(Article),
\* or None when a statement raises (caught at line 100, scrape returns None)
MutExtractLenientWordCount(page, url) ==
    IF page.script = "invalid" THEN None
    ELSE
    LET metadata == IF page.script = "object" THEN page.metadata ELSE EmptyMetadata
        keywords == Get(metadata, "keywords", StrValue(<<>>))
        word_count == PyInt(Get(metadata, "word_count", IntValue(0)))
    IN  IF keywords.kind # "str" THEN None
        ELSE Some([
            url |-> url,
            post_id |-> Get(metadata, "postid", StrValue(<<>>)),
            title |-> Get(metadata, "title", StrValue(<<>>)),
            keywords |-> Split(keywords.s, " "),
            thumbnail |-> Get(metadata, "thumbnail", StrValue(<<>>)),
            publication_date |-> Get(metadata, "published_time", StrValue(<<>>)),
            last_updated_date |-> Get(metadata, "last_updated", StrValue(<<>>)),
            author |-> Get(metadata, "author", StrValue(<<>>)),
            content |-> FullText(page.paragraphs),
            video_duration |-> Get(metadata, "video_duration", StrValue(<<>>)),
            word_count |-> IF word_count = None THEN 0 ELSE word_count[1],
            description |-> Get(metadata, "description", StrValue(<<>>)),
            lang |-> Get(metadata, "lang", StrValue(<<>>)),
            classes |-> Get(metadata, "classes", ListValue(<<>>)),
            lite_url |-> Get(metadata, "lite_url", StrValue(<<>>))])

Extract(page, url) ==
    IF page.script = "invalid" THEN None
    ELSE
    LET metadata == IF page.script = "object" THEN page.metadata ELSE EmptyMetadata
        keywords == Get(metadata, "keywords", StrValue(<<>>))
        word_count == PyInt(Get(metadata, "word_count", IntValue(0)))
    IN  IF keywords.kind # "str" THEN None          \* .split raises AttributeError
        ELSE IF word_count = None THEN None          \* int() raises
        ELSE Some([
            url |-> url,
            post_id |-> Get(metadata, "postid", StrValue(<<>>)),
            title |-> Get(metadata, "title", StrValue(<<>>)),
            keywords |-> Split(keywords.s, " "),
            thumbnail |-> Get(metadata, "thumbnail", StrValue(<<>>)),
            publication_date |-> Get(metadata, "published_time", StrValue(<<>>)),
            last_updated_date |-> Get(metadata, "last_updated", StrValue(<<>>)),
            author |-> Get(metadata, "author", StrValue(<<>>)),
            content |-> FullText(page.paragraphs),
            video_duration |-> Get(metadata, "video_duration", StrValue(<<>>)),
            word_count |-> word_count[1],
            description |-> Get(metadata, "description", StrValue(<<>>)),
            lang |-> Get(metadata, "lang", StrValue(<<>>)),
            classes |-> Get(metadata, "classes", ListValue(<<>>)),
            lite_url |-> Get(metadata, "lite_url", StrValue(<<>>))])

(***************************************************************************)
(* Responses of the network.  kind: "ok" (2xx and a parsed document),      *)
(* "request_exception" (requests.RequestException: transport error, or     *)
(* raise_for_status on a non-2xx status) or "other_exception" (any other   *)
(* exception raised in the try body, e.g. by the parser).                  *)
(***************************************************************************)
NoPage == Page("absent", EmptyMetadata, <<>>)

Response(kind, locs, page) == [kind |-> kind, locs |-> locs, page |-> page]

NoResponse == Response("none", <<>>, NoPage)

\* tenacity's stop_after_attempt(3) of the three @retry decorators
stop_after_attempt == 3

\* What @retry does with one attempt of the decorated function: "return"
\* its value when the body returned, "retry" when the body raised and
\* attempts remain, "retry_error" (tenacity.RetryError) when it raised on
\* the last attempt.
Retry(raised, attempt_number) ==
    IF ~raised THEN "return"
    ELSE IF attempt_number >= stop_after_attempt THEN "retry_error"
    ELSE "retry"

\* get_monthly_sitemaps / get_article_urls: `except requests.RequestException`
\* returns []; any other exception leaves the body.
MutSitemapBodyRaisesAll(resp) == resp.kind # "ok"

SitemapBodyRaises(resp) == resp.kind = "other_exception"

SitemapBodyValue(resp) == IF resp.kind = "ok" THEN resp.locs ELSE <<>>

\* scrape: `except Exception` returns None, so the body never raises.
ScrapeBodyRaises(resp) == FALSE

ScrapeBodyValue(resp, url) ==
    IF resp.kind = "ok" THEN Extract(resp.page, url) ELSE None

(***************************************************************************)
(* FileUtility.save_to_json (lines 104-116) on a file system fs =          *)
(* [dir_exists, files].  io is what the operating system does with this    *)
(* call: "ok", "makedirs_error" (os.makedirs raises), "open_error" (open   *)
(* raises) or "dump_error" (json.dump raises after open truncated the      *)
(* file).  The result says whether an exception left save_to_json.         *)
(***************************************************************************)
\* os.path.join(directory, f"articles_{year}_{month}.json"); the directory
\* is the same for every call
FilePath(year, month) == <<"articles_">> \o year \o <<"_">> \o month \o <<".json">>

\* what json.dump wrote: the whole array, or a broken-off text
Complete(batch) == [complete |-> TRUE, data |-> batch]

Partial == [complete |-> FALSE, data |-> <<>>]

\* line 113: [article.__dict__ for article in articles if article]
MutDumpedSkipsFirst(batch) ==
    LET kept == SelectSeq(batch, Truthy)
    IN  [i \in 1..(Len(kept) - 1) |-> kept[i + 1][1]]

Dumped(batch) ==
    LET kept == SelectSeq(batch, Truthy)
    IN  [i \in 1..Len(kept) |-> kept[i][1]]

IOs(fs) == {"ok", "open_error", "dump_error"}
               \cup (IF fs.dir_exists THEN {} ELSE {"makedirs_error"})

\* the file opened in append mode 'a' instead of 'w'
MutSaveToJsonAppends(fs, batch, year, month, io) ==
    LET path == FilePath(year, month)
        old == IF path \in DOMAIN fs.files THEN fs.files[path].data ELSE <<>>
    IN  IF io = "makedirs_error"
        THEN [raised |-> TRUE, dir_exists |-> fs.dir_exists, files |-> fs.files]
        ELSE IF io = "open_error"
        THEN [raised |-> FALSE, dir_exists |-> TRUE, files |-> fs.files]
        ELSE IF io = "dump_error"
        THEN [raised |-> FALSE, dir_exists |-> TRUE,
              files |-> (path :> [complete |-> FALSE, data |-> old]) @@ fs.files]
        ELSE [raised |-> FALSE, dir_exists |-> TRUE,
              files |-> (path :> Complete(old \o Dumped(batch))) @@ fs.files]

SaveToJson(fs, batch, year, month, io) ==
    IF io = "makedirs_error"
    THEN [raised |-> TRUE, dir_exists |-> fs.dir_exists, files |-> fs.files]  \* lines 108-109, outside the try
    ELSE IF io = "open_error"
    THEN [raised |-> FALSE, dir_exists |-> TRUE, files |-> fs.files]
    ELSE IF io = "dump_error"
    THEN [raised |-> FALSE, dir_exists |-> TRUE,
          files |-> (FilePath(year, month) :> Partial) @@ fs.files]
    ELSE [raised |-> FALSE, dir_exists |-> TRUE,
          files |-> (FilePath(year, month) :> Complete(Dumped(batch))) @@ fs.files]

(***************************************************************************)
(* What the network can answer.  Monthly sitemap URLs follow the index's   *)
(* naming scheme <name>-<year>-<month>.xml, so each holds two dashes.      *)
(***************************************************************************)
SeqsUpTo(S, n) == UNION {[1..k -> S] : k \in 0..n}

SitemapA == <<"s", "-", "7", "-", "1", ".", "x", "m", "l">>

SitemapB == <<"s", "-", "7", "-", "2", ".", "x", "m", "l">>

SitemapC == <<"t", "-", "7", "-", "1", ".", "x", "m", "l">>

\* the orders in which the index lists its monthly sitemaps: SitemapA and
\* SitemapC share their year and month
MonthOrders ==
    { <<SitemapA, SitemapB, SitemapC, SitemapA>>,
      <<SitemapA, SitemapC, SitemapB, SitemapA>> }

\* what the index can list: the first n entries of one of the orders
IndexLists == {SubSeq(o, 1, n) : o \in MonthOrders, n \in 0..MaxMonths}

\* the i-th <loc> of the monthly sitemap at position k of the index: article
\* URLs are opaque to the code, and no article is listed in two months
ArticleUrl(k, i) == <<"a", k, i>>

ArticleUrlLists(k) == {[i \in 1..n |-> ArticleUrl(k, i)] : n \in 0..MaxUrls}

\* a page whose metadata object holds the one key k, with value v
KeyPage(k, v) ==
    Page("object", [EmptyMetadata EXCEPT ![k] = Some(v)], <<"p">>)

RequestException == Response("request_exception", <<>>, NoPage)

OtherException == Response("other_exception", <<>>, NoPage)

IndexResponses ==
    {Response("ok", l, NoPage) : l \in IndexLists}
        \cup {RequestException, OtherException}

\* what the fetch of the monthly sitemap at position k can answer.  The
\* exception that reaches @retry is drawn for the first monthly sitemap only:
\* the decorator is the same for every call (lines 32 and 46)
SitemapResponses(k) ==
    {Response("ok", l, NoPage) : l \in ArticleUrlLists(k)}
        \cup {RequestException}
        \cup (IF k = 1 THEN {OtherException} ELSE {})

\* pages of the crawl: one without metadata script, one whose word_count
\* int() rejects
PageResponses ==
    { Response("ok", <<>>, NoPage),
      Response("ok", <<>>, KeyPage("word_count", StrValue(<<"1", "a">>))),
      RequestException }

(***************************************************************************)
(* main() (lines 118-150).                                                 *)
(***************************************************************************)
Init ==
    /\ pc = "get_monthly_sitemaps"
    /\ max_articles \in 1..MaxCap
    /\ monthly_sitemaps = <<>>
    /\ m = 0
    /\ article_urls = <<>>
    /\ u = 0
    /\ articles = <<>>
    /\ article_count = 0
    /\ article = None
    /\ attempt = 1
    /\ response = NoResponse
    /\ requests = [index |-> 0, sitemap |-> 0, article |-> 0]
    /\ outcomes = <<>>
    /\ dir_exists = FALSE
    /\ files = <<>>
    /\ save_calls = <<>>
    /\ appends = 0

\* line 120: one attempt of the decorated sitemap_parser.get_monthly_sitemaps(),
\* answered by one of `responses`
GetMonthlySitemapsFrom(responses) ==
    /\ pc = "get_monthly_sitemaps"
    /\ \E resp \in responses :
        LET r == Retry(SitemapBodyRaises(resp), attempt)
        IN  /\ response' = resp
            /\ requests' = [requests EXCEPT !.index = @ + 1]
            /\ monthly_sitemaps' =
                   IF r = "return" THEN SitemapBodyValue(resp) ELSE monthly_sitemaps
            /\ attempt' = IF r = "retry" THEN attempt + 1 ELSE attempt
            /\ pc' = CASE r = "return" -> "month_loop"
                       [] r = "retry" -> pc
                       [] r = "retry_error" -> "aborted"
    /\ UNCHANGED <<max_articles, m, article_urls, u, articles, article_count,
                   article, outcomes, dir_exists, files, save_calls, appends>>

GetMonthlySitemaps == GetMonthlySitemapsFrom(IndexResponses)

\* line 127: if article_count >= max_articles: break
MutOuterCapNeverReached(count, cap) == FALSE

OuterCapReached(count, cap) == count >= cap

\* line 132: if article_count >= max_articles: break
MutInnerCapOffByOne(count, cap) == count > cap

InnerCapReached(count, cap) == count >= cap

\* lines 126-128 and 150: the head of the outer for
MonthLoop ==
    /\ pc = "month_loop"
    /\ IF m < Len(monthly_sitemaps) /\ ~OuterCapReached(article_count, max_articles)
       THEN /\ m' = m + 1
            /\ attempt' = 1
            /\ pc' = "get_article_urls"
       ELSE /\ pc' = "done"
            /\ UNCHANGED <<m, attempt>>
    /\ UNCHANGED <<max_articles, monthly_sitemaps, article_urls, u, articles,
                   article_count, article, response, requests, outcomes,
                   dir_exists, files, save_calls, appends>>

\* line 129: one attempt of the decorated get_article_urls(sitemap_url),
\* answered by one of `responses`
GetArticleUrlsFrom(responses) ==
    /\ pc = "get_article_urls"
    /\ \E resp \in responses :
        LET r == Retry(SitemapBodyRaises(resp), attempt)
        IN  /\ response' = resp
            /\ requests' = [requests EXCEPT !.sitemap = @ + 1]
            /\ article_urls' =
                   IF r = "return" THEN SitemapBodyValue(resp) ELSE article_urls
            /\ u' = IF r = "return" THEN 0 ELSE u
            /\ outcomes' = IF r = "return" THEN <<>> ELSE outcomes
            /\ attempt' = IF r = "retry" THEN attempt + 1 ELSE attempt
            /\ pc' = CASE r = "return" -> "article_loop"
                       [] r = "retry" -> pc
                       [] r = "retry_error" -> "aborted"
    /\ UNCHANGED <<max_articles, monthly_sitemaps, m, articles, article_count,
                   article, dir_exists, files, save_calls, appends>>

GetArticleUrls == GetArticleUrlsFrom(SitemapResponses(m))

\* lines 131-134: the head of the inner for
ArticleLoop ==
    /\ pc = "article_loop"
    /\ IF u < Len(article_urls) /\ ~InnerCapReached(article_count, max_articles)
       THEN /\ u' = u + 1
            /\ attempt' = 1
            /\ pc' = "scrape"
       ELSE /\ pc' = "flush"
            /\ UNCHANGED <<u, attempt>>
    /\ UNCHANGED <<max_articles, monthly_sitemaps, m, article_urls, articles,
                   article_count, article, response, requests, outcomes,
                   dir_exists, files, save_calls, appends>>

\* lines 135-141: one attempt of the decorated scraper.scrape(), answered by
\* one of `responses`, and on its return the `if article:` block
ScrapeFrom(responses) ==
    /\ pc = "scrape"
    /\ \E resp \in responses :
        LET r == Retry(ScrapeBodyRaises(resp), attempt)
            result == ScrapeBodyValue(resp, article_urls[u])
        IN  /\ response' = resp
            /\ requests' = [requests EXCEPT !.article = @ + 1]
            /\ attempt' = IF r = "retry" THEN attempt + 1 ELSE attempt
            /\ pc' = CASE r = "return" -> "article_loop"
                       [] r = "retry" -> pc
                       [] r = "retry_error" -> "aborted"
            /\ IF r = "return"
               THEN /\ article' = result
                    /\ outcomes' = Append(outcomes, result # None)
                    /\ IF Truthy(result)
                       THEN /\ articles' = Append(articles, result)
                            /\ appends' = appends + 1
                            /\ article_count' = article_count + 1
                       ELSE UNCHANGED <<articles, appends, article_count>>
               ELSE UNCHANGED <<article, outcomes, articles, appends, article_count>>
    /\ UNCHANGED <<max_articles, monthly_sitemaps, m, article_urls, u,
                   dir_exists, files, save_calls>>

Scrape == ScrapeFrom(PageResponses)

\* line 145: year, month from the monthly sitemap's URL
Year(sitemap_url) ==
    LET t == Split(sitemap_url, "-") IN t[Len(t) - 1]

Month(sitemap_url) ==
    LET t == Split(sitemap_url, "-")
    IN  Replace(t[Len(t)], <<".", "x", "m", "l">>, <<>>)

\* line 144: if articles (a list is truthy when it is not empty)
MutListTruthyAlways(list) == TRUE

ListTruthy(list) == list # <<>>

\* line 147: articles = []
MutNotCleared(list) == list

Cleared(list) == <<>>

\* lines 144-147: save this sitemap's articles and clear the list
Flush ==
    /\ pc = "flush"
    /\ IF ListTruthy(articles)
       THEN \E io \in IOs([dir_exists |-> dir_exists, files |-> files]) :
            LET year == Year(monthly_sitemaps[m])
                month == Month(monthly_sitemaps[m])
                fs == SaveToJson([dir_exists |-> dir_exists, files |-> files],
                                 articles, year, month, io)
            IN  /\ save_calls' = Append(save_calls,
                       [m |-> m, articles |-> articles, year |-> year,
                        month |-> month, io |-> io])
                /\ dir_exists' = fs.dir_exists
                /\ files' = fs.files
                /\ articles' = IF fs.raised THEN articles ELSE Cleared(articles)
                /\ pc' = IF fs.raised THEN "aborted" ELSE "month_loop"
       ELSE /\ pc' = "month_loop"
            /\ UNCHANGED <<articles, dir_exists, files, save_calls>>
    /\ UNCHANGED <<max_articles, monthly_sitemaps, m, article_urls, u,
                   article_count, article, attempt, response, requests,
                   outcomes, appends>>

Next ==
    \/ GetMonthlySitemaps
    \/ MonthLoop
    \/ GetArticleUrls
    \/ ArticleLoop
    \/ Scrape
    \/ Flush

Spec == Init /\ [][Next]_vars

(***************************************************************************)
(* The crawl of one monthly sitemap of two articles, over a wide range of  *)
(* article pages: SpecPages differs from Spec only in what the network     *)
(* answers.                                                                *)
(***************************************************************************)
StrChars == {"1", "-", " ", "a"}

Strings == SeqsUpTo(StrChars, MaxStrLen)

\* the values a metadata key can hold on a page of WidePages
Values(k) ==
    IF k \in {"keywords", "word_count"}
    THEN {StrValue(s) : s \in Strings} \cup {IntValue(7), NullValue}
    ELSE IF k = "classes" THEN {ListValue(<<>>), ListValue(<<"c">>)}
    ELSE {StrValue(<<"v">>)}

FullMetadata ==
    [k \in Keys |-> Some(IF k = "word_count" THEN StrValue(<<"1", "1">>)
                         ELSE IF k = "classes" THEN ListValue(<<"c">>)
                         ELSE IF k = "keywords" THEN StrValue(<<"a", " ", "a">>)
                         ELSE StrValue(<<"v">>))]

WidePages ==
    {Page(s, EmptyMetadata, ps) :
        s \in {"absent", "object", "invalid"},
        ps \in SeqsUpTo({"p", "q"}, MaxParagraphs)}
      \cup UNION {{KeyPage(k, v) : v \in Values(k)} : k \in Keys}
      \cup {Page("object", FullMetadata, <<"p", "q">>)}

WidePageResponses ==
    {Response("ok", <<>>, p) : p \in WidePages} \cup {RequestException}

\* the index listing the one monthly sitemap SitemapA
OneSitemapResponses == {Response("ok", <<SitemapA>>, NoPage)}

GetIndexOfOne == GetMonthlySitemapsFrom(OneSitemapResponses)

\* the monthly sitemap listing two article URLs
TwoArticleUrlsResponses ==
    {Response("ok", <<ArticleUrl(1, 1), ArticleUrl(1, 2)>>, NoPage)}

GetTwoArticleUrls == GetArticleUrlsFrom(TwoArticleUrlsResponses)

ScrapeWide == ScrapeFrom(WidePageResponses)

NextPages ==
    \/ GetIndexOfOne
    \/ MonthLoop
    \/ GetTwoArticleUrls
    \/ ArticleLoop
    \/ ScrapeWide
    \/ Flush

SpecPages == Init /\ [][NextPages]_vars

(***************************************************************************)
(* The crawl of an index of one monthly sitemap whose URL is drawn from a  *)
(* wide set: for the year and month main derives from it (lines 145-146).  *)
(***************************************************************************)
UrlPieces == {<<"7">>, <<"1">>, <<"-">>, <<".", "x", "m", "l">>}

RECURSIVE Concat(_)
Concat(pieces) ==
    IF pieces = <<>> THEN <<>> ELSE Head(pieces) \o Concat(Tail(pieces))

\* the monthly sitemap URLs of SpecKeys: every one has a dash
KeyUrls ==
    {url \in {Concat(ps) : ps \in SeqsUpTo(UrlPieces, MaxPieces)} :
        IndexOf(url, "-", 1) # 0}

\* the index listing one monthly sitemap, of any of the URLs of KeyUrls
KeyUrlResponses == {Response("ok", <<url>>, NoPage) : url \in KeyUrls}

GetIndexOfKeyUrl == GetMonthlySitemapsFrom(KeyUrlResponses)

NextKeys ==
    \/ GetIndexOfKeyUrl
    \/ MonthLoop
    \/ GetArticleUrls
    \/ ArticleLoop
    \/ Scrape
    \/ Flush

SpecKeys == Init /\ [][NextKeys]_vars

(***************************************************************************)
(* Properties.                                                             *)
(***************************************************************************)
Last(s) == s[Len(s)]

\* the URLs of a list of scraped articles
UrlsOf(list) == [i \in 1..Len(list) |-> list[i][1].url]

\* the URLs of a list of dumped records
UrlsOfRecords(data) == [i \in 1..Len(data) |-> data[i].url]

RECURSIVE Successful(_, _)
\* the URLs among the first Len(outs) of urls whose scrape returned an
\* Article, in the sitemap's order
Successful(urls, outs) ==
    IF outs = <<>> THEN <<>>
    ELSE LET n == Len(outs)
             before == Successful(urls, SubSeq(outs, 1, n - 1))
         IN  IF outs[n] THEN Append(before, urls[n]) ELSE before

\* C1: in every reachable state article_count is at most max_articles, and
\* so is the number of articles appended to the accumulator over the run.
C1CountAtMostCap ==
    /\ article_count <= max_articles
    /\ appends <= max_articles

\* a run that the cap stopped inside the second monthly sitemap, a URL left
\* unfetched
C1Witness ==
    /\ pc = "done"
    /\ max_articles = 2
    /\ m = 2
    /\ article_count = max_articles
    /\ appends = max_articles
    /\ u < Len(article_urls)

\* C2: no error is fatal: main() does not abort on any combination of fetch
\* failures (request exceptions), extraction failures and I/O failures of a
\* flush, and the loop ends only with the cap reached or the index
\* exhausted.  (An abort is allowed here only on an exception outside these
\* classes, raised three times in a sitemap fetch.)
C2NoErrorIsFatal ==
    /\ pc = "aborted" => response.kind = "other_exception"
    /\ pc = "done" =>
           article_count >= max_articles \/ m = Len(monthly_sitemaps)

\* C3: a fetch whose attempt fails with a transport error or a non-2xx
\* response is attempted again: the failure reaches the caller only after
\* stop_after_attempt attempts.
C3FailureAfterThreeAttempts ==
    response.kind = "request_exception" => attempt = stop_after_attempt

\* C4: a scrape that fails (fetch or extraction: scrape returns None) leaves
\* the counter and the accumulator unchanged and main goes on with the next
\* URL of the same sitemap; a scrape that returns an Article appends exactly
\* it and adds one to the counter; no other step changes the counter or adds
\* to the accumulator.
C4SkipOrAppendOne ==
    [][ /\ pc = "scrape" =>
            /\ response'.kind = "request_exception" => article' = None
            /\ article' = None =>
                   /\ articles' = articles
                   /\ article_count' = article_count
                   /\ pc' = "article_loop"
                   /\ <<m', u', article_urls'>> = <<m, u, article_urls>>
            /\ article' # None =>
                   /\ response'.kind = "ok"
                   /\ articles' = Append(articles, article')
                   /\ article_count' = article_count + 1
        /\ pc # "scrape" =>
            /\ article_count' = article_count
            /\ articles' = articles \/ articles' = <<>>
      ]_vars

\* a failed extraction right after a successful scrape of the same sitemap
C4Witness ==
    /\ pc = "article_loop"
    /\ outcomes = <<TRUE, FALSE>>
    /\ response.kind = "ok"
    /\ article = None
    /\ Len(articles) = 1
    /\ article_count = 1

\* C5: the accumulator is empty whenever the processing of a monthly sitemap
\* begins, it holds only articles listed in the sitemap in progress, and
\* every batch handed to save_to_json for the sitemap at position k of the
\* index holds only articles listed in that sitemap.
C5BatchOfOneMonth ==
    /\ pc \in {"month_loop", "get_article_urls"} => articles = <<>>
    /\ \A i \in 1..Len(articles) :
           articles[i] # None /\ articles[i][1].url[2] = m
    /\ \A c \in 1..Len(save_calls) :
           \A i \in 1..Len(save_calls[c].articles) :
               save_calls[c].articles[i][1].url[2] = save_calls[c].m

\* the second sitemap accumulates after the first one's batch was flushed
C5Witness ==
    /\ m = 2
    /\ pc = "flush"
    /\ Len(save_calls) = 1
    /\ save_calls[1].m = 1
    /\ articles # <<>>

DefaultArticle(url) ==
    [url |-> url, post_id |-> StrValue(<<>>), title |-> StrValue(<<>>),
     keywords |-> <<>>, thumbnail |-> StrValue(<<>>),
     publication_date |-> StrValue(<<>>), last_updated_date |-> StrValue(<<>>),
     author |-> StrValue(<<>>), content |-> "", video_duration |-> StrValue(<<>>),
     word_count |-> 0, description |-> StrValue(<<>>), lang |-> StrValue(<<>>),
     classes |-> ListValue(<<>>), lite_url |-> StrValue(<<>>)]

\* C7: for a page whose metadata block is absent or holds none of the mapped
\* keys, scrape returns an Article whose every metadata field is its
\* documented default, keywords and classes being the empty list.
C7AllDefaults ==
    ( /\ pc = "article_loop"
      /\ u > 0
      /\ Len(outcomes) = u
      /\ response.kind = "ok"
      /\ response.page.script \in {"absent", "object"}
      /\ response.page.metadata = EmptyMetadata )
    => /\ article # None
       /\ [article[1] EXCEPT !.content = ""] = DefaultArticle(article_urls[u])

\* a word_count that is no number: null, or a str without a digit or with a
\* character that is no digit, sign, blank or underscore
NonNumeric(v) ==
    \/ v.kind = "null"
    \/ /\ v.kind = "str"
       /\ \/ \A i \in 1..Len(v.s) : v.s[i] \notin Digits
          \/ \E i \in 1..Len(v.s) : v.s[i] \notin Digits \cup {"+", "-", " ", "_"}

NonNumericWordCount(page) ==
    /\ page.script = "object"
    /\ page.metadata["word_count"] # None
    /\ NonNumeric(page.metadata["word_count"][1])

\* C8: for a page whose metadata word_count is non-numeric, scrape returns
\* no Article; main skips the page without counting it and goes on with the
\* next URL.
C8NonNumericWordCountSkipped ==
    [][ (pc = "scrape" /\ response'.kind = "ok"
                       /\ NonNumericWordCount(response'.page)) =>
            /\ article' = None
            /\ article_count' = article_count
            /\ articles' = articles
            /\ pc' = "article_loop"
            /\ <<m', u', article_urls'>> = <<m, u, article_urls>> ]_vars

\* the second page of a sitemap had a non-numeric word_count, after a first
\* article was scraped
C8Witness ==
    /\ pc = "article_loop"
    /\ u = 2
    /\ response.kind = "ok"
    /\ NonNumericWordCount(response.page)
    /\ article = None
    /\ outcomes = <<TRUE, FALSE>>
    /\ article_count = 1

\* C9: when save_to_json fails, the run is not aborted: main goes on with
\* the next monthly sitemap, the batch is dropped (accumulator empty) and
\* the counter keeps counting the dropped articles.
C9FailedFlushNotFatal ==
    [][ ( /\ pc = "flush"
          /\ Len(save_calls') = Len(save_calls) + 1
          /\ Last(save_calls').io # "ok" ) =>
            /\ pc' = "month_loop"
            /\ articles' = <<>>
            /\ article_count' = article_count ]_vars

\* C10: the batch flushed for a monthly sitemap holds exactly the articles of
\* that sitemap whose scrape returned an Article, each once and in the
\* sitemap's order: the accumulator is that list at every point of the inner
\* loop, and a successful flush leaves exactly its records in the file.
C10BatchIsSuccessesInOrder ==
    /\ []( pc \in {"article_loop", "scrape", "flush"} =>
               /\ \A i \in 1..Len(articles) : articles[i] # None
               /\ UrlsOf(articles) = Successful(article_urls, outcomes) )
    /\ [][ ( /\ pc = "flush"
             /\ Len(save_calls') = Len(save_calls) + 1
             /\ Last(save_calls').io = "ok" ) =>
               LET c == Last(save_calls')
                   f == files'[FilePath(c.year, c.month)]
               IN  /\ f.complete
                   /\ UrlsOfRecords(f.data) = Successful(article_urls, outcomes)
                   /\ \A i \in 1..Len(f.data) : Some(f.data[i]) = articles[i] ]_vars

\* a sitemap of 2 URLs, both scraped: one batch, of exactly 2 records, in
\* the month's file
C10Witness ==
    /\ pc = "month_loop"
    /\ outcomes = <<TRUE, TRUE>>
    /\ Len(save_calls) = 1
    /\ save_calls[1].io = "ok"
    /\ Len(files[FilePath(save_calls[1].year, save_calls[1].month)].data) = 2

\* the sitemap fetch that was last answered failed with a request exception,
\* and no article of it has been taken
SitemapFetchFailed ==
    /\ pc \in {"article_loop", "flush"}
    /\ response.kind = "request_exception"
    /\ u = 0
    /\ outcomes = <<>>

\* C11: a failed sitemap fetch is an empty list of locations.  A monthly
\* sitemap whose fetch fails yields no article fetch and no flush, and main
\* goes on to the outer loop head; a failed index fetch ends the run with no
\* article scraped, no sitemap fetched and no flush.
C11FailedSitemapIsEmpty ==
    /\ [][ /\ (pc = "get_article_urls" /\ response'.kind = "request_exception") =>
                /\ pc' = "article_loop"
                /\ article_urls' = <<>>
           /\ SitemapFetchFailed =>
                /\ requests' = requests
                /\ save_calls' = save_calls
                /\ files' = files
                /\ article_count' = article_count
                /\ pc' = IF pc = "article_loop" THEN "flush" ELSE "month_loop"
           /\ (pc = "get_monthly_sitemaps" /\ response'.kind = "request_exception") =>
                /\ pc' = "month_loop"
                /\ monthly_sitemaps' = <<>> ]_vars
    /\ []( (response.kind = "request_exception" /\ requests.sitemap = 0) =>
                /\ pc \in {"month_loop", "done"}
                /\ monthly_sitemaps = <<>>
                /\ article_count = 0
                /\ requests.article = 0
                /\ save_calls = <<>>
                /\ files = <<>> )
    /\ [][ (pc = "month_loop" /\ monthly_sitemaps = <<>>) => pc' = "done" ]_vars

\* the first monthly sitemap's fetch failed: nothing fetched or flushed for
\* it, and main is back at the outer loop head with a second sitemap to go
C11Witness ==
    /\ pc = "month_loop"
    /\ m = 1
    /\ Len(monthly_sitemaps) = 2
    /\ response.kind = "request_exception"
    /\ requests = [index |-> 1, sitemap |-> 1, article |-> 0]
    /\ save_calls = <<>>

\* C12: save_to_json is called at most once per monthly sitemap and in the
\* index's order (the calls' sitemap positions increase strictly), never with
\* an empty batch, and only from the flush position, where every URL of the
\* sitemap has been scraped or the cap is reached and the rest left unfetched.
C12OneFlushPerMonthInOrder ==
    /\ []( /\ \A c \in 1..Len(save_calls) :
                /\ save_calls[c].articles # <<>>
                /\ save_calls[c].m \in 1..m
           /\ \A c \in 1..(Len(save_calls) - 1) :
                save_calls[c].m < save_calls[c + 1].m )
    /\ [][ save_calls' # save_calls =>
                /\ pc = "flush"
                /\ Len(save_calls') = Len(save_calls) + 1
                /\ Last(save_calls').m = m
                /\ Len(outcomes) = u
                /\ u = Len(article_urls) \/ article_count >= max_articles ]_vars

\* two monthly sitemaps flushed, the first before the second
C12Witness ==
    /\ pc = "done"
    /\ Len(save_calls) = 2
    /\ save_calls[1].m = 1
    /\ save_calls[2].m = 2

RECURSIVE LastIndexOf(_, _, _)
\* the greatest position at or before upto where s holds c, 0 when none
LastIndexOf(s, c, upto) ==
    IF upto = 0 THEN 0
    ELSE IF s[upto] = c THEN upto
    ELSE LastIndexOf(s, c, upto - 1)

\* the last dash-delimited token of a URL
LastToken(url) ==
    SubSeq(url, LastIndexOf(url, "-", Len(url)) + 1, Len(url))

\* the second-to-last dash-delimited token of a URL that has a dash
SecondToLastToken(url) ==
    LET d == LastIndexOf(url, "-", Len(url))
    IN  SubSeq(url, LastIndexOf(url, "-", d - 1) + 1, d - 1)

\* t with a trailing ".xml" removed, and nothing else
WithoutXmlSuffix(t) ==
    IF Len(t) >= 4 /\ SubSeq(t, Len(t) - 3, Len(t)) = <<".", "x", "m", "l">>
    THEN SubSeq(t, 1, Len(t) - 4)
    ELSE t

\* C13: every flush is handed the year that is the second-to-last
\* dash-delimited token of its monthly sitemap's URL and the month that is
\* the last token with only its trailing ".xml" removed.
C13MonthKeyFromTrailingTokens ==
    \A c \in 1..Len(save_calls) :
        LET url == monthly_sitemaps[save_calls[c].m]
        IN  /\ save_calls[c].year = SecondToLastToken(url)
            /\ save_calls[c].month = WithoutXmlSuffix(LastToken(url))

RECURSIVE Joined(_)
\* paragraph texts with one newline between consecutive ones
Joined(paragraphs) ==
    IF paragraphs = <<>> THEN ""
    ELSE IF Len(paragraphs) = 1 THEN paragraphs[1]
    ELSE paragraphs[1] \o "\n" \o Joined(Tail(paragraphs))

\* C14: the content of an extracted Article is the page's paragraph texts in
\* document order with a single newline between consecutive paragraphs, and
\* the empty string for a page without paragraphs.
C14ContentNewlineSeparated ==
    ( /\ pc = "article_loop"
      /\ u > 0
      /\ Len(outcomes) = u
      /\ response.kind = "ok"
      /\ article # None )
    => article[1].content = Joined(response.page.paragraphs)

\* C15: whatever the requests' outcomes, the run goes on until it has reached
\* its final step (no run stops short of it); no fetch is attempted more
\* than stop_after_attempt times, and the loops' positions never pass the
\* ends of the index and of the monthly sitemap.
C15RunReachesCompletion ==
    /\ pc = "done" \/ ENABLED Next
    /\ attempt \in 1..stop_after_attempt
    /\ m <= Len(monthly_sitemaps)
    /\ u <= Len(article_urls)

RECURSIVE SumBatches(_)
\* the number of articles in the batches of a list of save_to_json calls
SumBatches(calls) ==
    IF calls = <<>> THEN 0
    ELSE Len(Head(calls).articles) + SumBatches(Tail(calls))

RECURSIVE HandedUrls(_)
\* the URLs of the articles handed over by a list of save_to_json calls
HandedUrls(calls) ==
    IF calls = <<>> THEN <<>>
    ELSE UrlsOf(Head(calls).articles) \o HandedUrls(Tail(calls))

\* C16: in every reachable state article_count is the number of articles in
\* the batches handed to save_to_json so far plus the length of the
\* accumulator; no article is handed over twice, and when the run has ended
\* none is left in the accumulator.
C16CountIsHandedPlusAccumulated ==
    /\ article_count = SumBatches(save_calls) + Len(articles)
    /\ LET urls == HandedUrls(save_calls)
       IN  \A i, j \in 1..Len(urls) : urls[i] = urls[j] => i = j
    /\ pc \in {"done", "aborted"} => articles = <<>>

\* the file each save_to_json call so far was to write
PathOfCall == [c \in 1..Len(save_calls) |->
                  FilePath(save_calls[c].year, save_calls[c].month)]

\* the positions of the save_to_json calls to path whose io is among kinds
CallsTo(path, kinds) ==
    {k \in 1..Len(save_calls) : PathOfCall[k] = path /\ save_calls[k].io \in kinds}

Max(S) == CHOOSE x \in S : \A y \in S : y <= x

\* C17 as stated: at the end of a run the file of every MonthKey that had a
\* successful flush holds exactly the batch of the last successful flush to
\* that key.
C17FileIsLastSuccessfulBatch ==
    pc = "done" =>
        \A c \in 1..Len(save_calls) :
            LET path == PathOfCall[c]
                ok == CallsTo(path, {"ok"})
            IN  ok # {} =>
                    /\ path \in DOMAIN files
                    /\ files[path] = Complete(Dumped(save_calls[Max(ok)].articles))

\* C17, amended: the file of a MonthKey holds what the last flush to that key
\* that opened the file wrote: exactly its batch when the flush succeeded,
\* a broken-off text when json.dump failed; flushes failing before or in
\* open() leave the file as it was, and there is a file only for keys with
\* an opened flush.  Batches overwritten or dropped still count.
C17FileIsLastOpenedFlush ==
    /\ \A c \in 1..Len(save_calls) :
          LET path == PathOfCall[c]
              opened == CallsTo(path, {"ok", "dump_error"})
          IN  IF opened = {} THEN path \notin DOMAIN files
              ELSE LET last == save_calls[Max(opened)]
                   IN  /\ path \in DOMAIN files
                       /\ files[path] = IF last.io = "ok"
                                        THEN Complete(Dumped(last.articles))
                                        ELSE Partial
    /\ \A path \in DOMAIN files : CallsTo(path, {"ok", "dump_error"}) # {}
    /\ article_count >= SumBatches(save_calls)

\* two monthly sitemaps of one MonthKey were flushed successfully: the file
\* holds the second batch only, and both articles are counted
C17Witness ==
    /\ pc = "done"
    /\ Len(save_calls) = 2
    /\ save_calls[1].io = "ok"
    /\ save_calls[2].io = "ok"
    /\ PathOfCall[1] = PathOfCall[2]
    /\ DOMAIN files = {PathOfCall[2]}
    /\ UrlsOfRecords(files[PathOfCall[2]].data) = <<ArticleUrl(2, 1)>>
    /\ article_count = 2

=============================================================================
